---- MODULE Spec2Model ----
(***************************************************************************)
(* HD ASCII video player (app.py): construction of HDAsciiPlayer, the      *)
(* conversion phase (decoder, thread pool, frame conversion), the playback *)
(* loop on the curses terminal, and the run-level cleanup.                 *)
(***************************************************************************)
EXTENDS Integers, Sequences, FiniteSets, TLC

(* ---------------------------------------------------------------------- *)
(* Configuration constants of app.py                                       *)
(* ---------------------------------------------------------------------- *)
ENHANCED_ASCII ==
  << "@", "%", "#", "W", "$", "9", "8", "7", "6", "5", "4", "3", "2", "1", "0",
     "?", "!", "a", "b", "c", ";", ":", "+", "=", "-", ",", ".", "_", " " >>

FPS == 12

ASCII_WIDTH == 100

MAX_THREADS == 4

MinRows == 24

MinCols == 80

(* ---------------------------------------------------------------------- *)
(* Bounds of the model                                                     *)
(* ---------------------------------------------------------------------- *)
\* largest number of still images the decoder leaves in temp_frames
MaxFrames == 3

\* capacity of the terminal's input buffer (keys typed but not yet read)
KeyBufCap == 1

\* terminal dimensions <<cols, rows>> that shutil.get_terminal_size may report
Terminals == { <<60, 20>>, <<110, 30>> }

\* rows before which addstr may fail, of n content rows: the first, the last
FailRows(n) == { 0, n - 1 }

\* keys the user may type during playback
Keys == { "q", "x" }

Min(a, b) == IF a <= b THEN a ELSE b

Max(a, b) == IF a >= b THEN a ELSE b

\* Python's None (and the empty string: both are falsy in `if f`)
None == << >>

\* a slot of executor.map whose future has not produced its result yet
NotReady == << "?" >>

(* ---------------------------------------------------------------------- *)
(* Pure functions                                                          *)
(* ---------------------------------------------------------------------- *)
\* ViewportSize without the floor: only the margins are taken off
ViewportSizeNoFloor(cols, rows) == << rows - 2, cols - 4 >>

\* _get_terminal_size: (rows, cols) with the margins and the 24x80 floor
ViewportSize(cols, rows) == << Max(rows - 2, MinRows), Max(cols - 4, MinCols) >>

\* int(x) of Python truncates towards zero
TruncDiv(a, b) == IF a >= 0 THEN a \div b ELSE -((-a) \div b)

\* GlyphIndex scaled by the ramp length instead of its last index, unclamped
GlyphIndexFullRamp(p) == TruncDiv(p * Len(ENHANCED_ASCII), 255)

\* min(int((p/255) * (len(ENHANCED_ASCII)-1)), len(ENHANCED_ASCII)-1);
\* for p in 0..255 the float64 product never crosses an integer, so the
\* truncation equals the exact quotient
GlyphIndex(p) ==
  Min(TruncDiv(p * (Len(ENHANCED_ASCII) - 1), 255), Len(ENHANCED_ASCII) - 1)

\* GridHeight without the 0.9: the grid is as high as the viewport
GridHeightFull(ts) == ts[1]

\* height = int(self.term_size[0] * 0.9)
GridHeight(ts) == (ts[1] * 9) \div 10

\* width = min(ASCII_WIDTH, self.term_size[1])
GridWidth(ts) == Min(ASCII_WIDTH, ts[2])

\* luminance of pixel (r, c) of still image img after enhancement, grayscale
\* conversion and resize: the picture content is an input of the program
Pixel(img, r, c) == (img * 89 + r * 37 + c * 13) % 256

\* Resize with the two dimensions exchanged
ResizeSwapped(img, width, height) ==
  [r \in 1..width |-> [c \in 1..height |-> Pixel(img, r, c)]]

\* cv2.resize(gray, (width, height)): an array of height rows by width columns
Resize(img, width, height) ==
  [r \in 1..height |-> [c \in 1..width |-> Pixel(img, r, c)]]

\* "".join([ENHANCED_ASCII[index(p)] for p in row])
Line(row) == [c \in 1..Len(row) |-> ENHANCED_ASCII[GlyphIndex(row[c]) + 1]]

\* ascii_str += line + "\n" over the rows of gray, an array whose rows all
\* have w pixels: character k of the result lies in row (k - 1) \div (w + 1)
AsciiStr(gray) ==
  IF Len(gray) = 0 THEN << >>
  ELSE LET w == Len(gray[1])
       IN  [k \in 1..(Len(gray) * (w + 1)) |->
              IF (k - 1) % (w + 1) = w
                THEN "\n"
                ELSE Line(gray[((k - 1) \div (w + 1)) + 1])[((k - 1) % (w + 1)) + 1]]

\* convert_to_ascii that answers a failure with a blank line instead of None
convert_to_ascii_blank(img, ts) ==
  IF img = 0 THEN << " ", "\n" >>
  ELSE CHOOSE ascii_str \in
         { AsciiStr(gray) :
             gray \in { Resize(img, GridWidth(ts), GridHeight(ts)) } } : TRUE

\* _convert_to_ascii: img = 0 is a file that cannot be decoded or processed
convert_to_ascii(img, ts) ==
  IF img = 0 THEN None
  ELSE CHOOSE ascii_str \in
         { AsciiStr(gray) :
             gray \in { Resize(img, GridWidth(ts), GridHeight(ts)) } } : TRUE

\* positions of the line breaks of s
LineBreaks(s) == { j \in 1..Len(s) : s[j] = "\n" }

\* the k-th smallest element of a set of positions
Nth(S, k) == CHOOSE p \in S : Cardinality({ q \in S : q < p }) = k - 1

\* the pieces of s between the line breaks nl; a trailing break ends the last
\* line and opens no empty one
SplitAt(s, nl) ==
  LET m == Cardinality(nl)
      n == IF m = 0 THEN (IF Len(s) > 0 THEN 1 ELSE 0)
           ELSE IF Nth(nl, m) < Len(s) THEN m + 1 ELSE m
  IN  [k \in 1..n |->
         SubSeq(s, IF k = 1 THEN 1 ELSE Nth(nl, k - 1) + 1,
                   IF k <= m THEN Nth(nl, k) - 1 ELSE Len(s))]

\* str.splitlines()
splitlines(s) ==
  CHOOSE parts \in { SplitAt(s, nl) : nl \in { LineBreaks(s) } } : TRUE

\* s[:n]
Take(s, n) == SubSeq(s, 1, Min(Len(s), n))

\* FilterFrames that keeps a blank frame in place of a failed conversion
FilterFramesBlank(results) ==
  [i \in 1..Len(results) |-> IF results[i] = None THEN << "\n" >> ELSE results[i]]

\* [f for f in results if f]
FilterFrames(results) == SelectSeq(results, LAMBDA f : f # None)

\* StoreResult that fills the slots in the order of completion
StoreResultByCompletion(results, i, r) ==
  LET k == CHOOSE k \in 1..Len(results) :
             /\ results[k] = NotReady
             /\ \A j \in 1..(k - 1) : results[j] # NotReady
  IN  [results EXCEPT ![k] = r]

\* the future of task i delivers r into its own slot of executor.map
StoreResult(results, i, r) == [results EXCEPT ![i] = r]

(* ---------------------------------------------------------------------- *)
(* State                                                                   *)
(* ---------------------------------------------------------------------- *)
VARIABLES
  pc,             \* position of the main thread
  term_size,      \* self.term_size = (rows, cols); <<0, 0>> before __init__
  ascii_frames,   \* self.ascii_frames
  temp_frames,    \* the directory temp_frames exists
  video_exists,   \* os.path.exists(VIDEO_FILE)
  decoder_status, \* exit status of ffmpeg; -1 while it was not invoked
  frame_files,    \* sorted png files of temp_frames, each named by its picture
  futures,        \* state of every task submitted to the ThreadPoolExecutor
  results,        \* slot array of executor.map
  exc,            \* exception being propagated in the main thread
  exit_status,    \* exit status of the process; -1 while it runs
  reported,       \* the except KeyboardInterrupt clause of __main__ ran
  cleanups,       \* number of calls of player.cleanup()
  acquired,       \* curses.initscr() returned
  endwins,        \* number of successful calls of curses.endwin()
  last_op,        \* last curses call that acted on the terminal
  idx,            \* 1-based index of the frame of the current iteration
  rendered,       \* indices of the frames whose iteration began to draw
  polls,          \* number of getch calls of the current frame iteration
  sleeps,         \* number of time.sleep calls since the last stdscr.clear()
  lines,          \* the local variable lines of play
  drawn,          \* rows of frame content on the screen since the last clear
  status_row,     \* row of the status line since the last clear; -1 if none
  keybuf,         \* keys typed and not yet read by getch
  quit_at,        \* frame at whose poll point 'q' first heads keybuf; 0 if none
  stop,           \* why the frame loop ended
  lum,            \* a pair of luminance samples handed to the glyph mapping
  glyph           \* the glyph indices computed for lum; -1 before the mapping

vars ==
  << pc, term_size, ascii_frames, temp_frames, video_exists, decoder_status,
     frame_files, futures, results, exc, exit_status, reported,
     cleanups, acquired, endwins, last_op, idx, rendered, polls, drawn,
     status_row, keybuf, quit_at, stop, lum, glyph, lines, sleeps >>

convVars ==
  << decoder_status, frame_files, futures, results, ascii_frames >>

mapVars == << lum, glyph >>

termVars == << acquired, endwins, last_op, drawn, status_row >>

loopVars == << idx, rendered, polls, sleeps, lines, stop >>

\* positions of the main thread inside the frame loop of play
LoopPcs ==
  { "loop_next", "clear", "splitlines", "addstr", "status", "refresh",
    "getch", "sleep" }

keyVars == << keybuf, quit_at >>

runVars == << exc, exit_status, reported, cleanups >>

sysVars == << term_size, temp_frames, video_exists, mapVars >>

\* the lists of still images the decoder can leave: picture i at position i,
\* or 0 for a file that cannot be converted
FrameLists ==
  UNION { { [i \in 1..n |-> IF b[i] THEN i ELSE 0] : b \in [1..n -> BOOLEAN] }
          : n \in 0..MaxFrames }

\* the state before the program has done anything
Fresh ==
  /\ term_size = << 0, 0 >>
  /\ ascii_frames = << >>
  /\ temp_frames = FALSE
  /\ decoder_status = -1
  /\ frame_files = << >>
  /\ futures = << >>
  /\ results = << >>
  /\ exc = "none"
  /\ exit_status = -1
  /\ reported = FALSE
  /\ cleanups = 0
  /\ acquired = FALSE
  /\ endwins = 0
  /\ last_op = "none"
  /\ idx = 0
  /\ rendered = << >>
  /\ polls = 0
  /\ sleeps = 0
  /\ lines = << >>
  /\ drawn = << >>
  /\ status_row = -1
  /\ keybuf = << >>
  /\ quit_at = 0
  /\ stop = "none"

Init ==
  /\ Fresh
  /\ pc = "term_size"
  /\ video_exists \in BOOLEAN
  /\ lum = << 0, 0 >>
  /\ glyph = << -1, -1 >>

(* ---------------------------------------------------------------------- *)
(* Construction: HDAsciiPlayer.__init__                                    *)
(* ---------------------------------------------------------------------- *)
\* _get_terminal_size: the query answers, or fails and 24x80 is used
GetTerminalSize ==
  /\ pc = "term_size"
  /\ \/ \E t \in Terminals : term_size' = ViewportSize(t[1], t[2])
     \/ term_size' = << MinRows, MinCols >>
  /\ pc' = "prepare_dirs"
  /\ UNCHANGED << temp_frames, video_exists, mapVars >>
  /\ UNCHANGED << convVars, termVars, loopVars, keyVars, runVars >>

\* self.ascii_frames = []; _prepare_dirs()
PrepareDirs ==
  /\ pc = "prepare_dirs"
  /\ ascii_frames' = << >>
  /\ temp_frames' = TRUE
  /\ pc' = "constructed"
  /\ UNCHANGED << term_size, video_exists, mapVars >>
  /\ UNCHANGED << decoder_status, frame_files, futures, results >>
  /\ UNCHANGED << termVars, loopVars, keyVars, runVars >>

\* player = HDAsciiPlayer() is bound and the try block of __main__ is entered
EnterTry ==
  /\ pc = "constructed"
  /\ pc' = "check_input"
  /\ UNCHANGED sysVars
  /\ UNCHANGED << convVars, termVars, loopVars, keyVars, runVars >>

(* ---------------------------------------------------------------------- *)
(* Conversion phase: HDAsciiPlayer.convert_video                           *)
(* ---------------------------------------------------------------------- *)
\* CheckInput that goes on to the decoder whether the file is there or not
CheckInputIgnored ==
  /\ pc = "check_input"
  /\ pc' = "decode"
  /\ UNCHANGED sysVars
  /\ UNCHANGED << convVars, termVars, loopVars, keyVars, runVars >>

\* if not os.path.exists(VIDEO_FILE): return False
CheckInput ==
  /\ pc = "check_input"
  /\ pc' = IF video_exists THEN "decode" ELSE "exit1"
  /\ UNCHANGED sysVars
  /\ UNCHANGED << convVars, termVars, loopVars, keyVars, runVars >>

\* os.system(cmd): ffmpeg writes the still images and exits with 0, or fails
Decode ==
  /\ pc = "decode"
  /\ \/ /\ decoder_status' = 0
        /\ \E fl \in FrameLists : frame_files' = fl
        /\ pc' = "dispatch"
     \/ /\ decoder_status' = 1
        /\ frame_files' = << >>
        /\ pc' = "exit1"
  /\ UNCHANGED << sysVars, futures, results, ascii_frames >>
  /\ UNCHANGED << termVars, loopVars, keyVars, runVars >>

\* executor.map submits one task per frame file, in the order of frame_files
Dispatch ==
  /\ pc = "dispatch"
  /\ futures' = [i \in 1..Len(frame_files) |-> "pending"]
  /\ results' = [i \in 1..Len(frame_files) |-> NotReady]
  /\ pc' = "collect"
  /\ UNCHANGED << sysVars, decoder_status, frame_files, ascii_frames >>
  /\ UNCHANGED << termVars, loopVars, keyVars, runVars >>

Running == { i \in 1..Len(futures) : futures[i] = "running" }

\* a pool thread takes the oldest queued task
WorkerStart(i) ==
  /\ pc \in { "collect", "shutdown" }
  /\ futures[i] = "pending"
  /\ \A j \in 1..(i - 1) : futures[j] # "pending"
  /\ Cardinality(Running) < MAX_THREADS
  /\ futures' = [futures EXCEPT ![i] = "running"]
  /\ UNCHANGED << pc, sysVars >>
  /\ UNCHANGED << decoder_status, frame_files, results, ascii_frames >>
  /\ UNCHANGED << termVars, loopVars, keyVars, runVars >>

\* the task returns self._convert_to_ascii(path) and its future is resolved
WorkerFinish(i) ==
  /\ futures[i] = "running"
  /\ futures' = [futures EXCEPT ![i] = "done"]
  /\ results' = StoreResult(results, i, convert_to_ascii(frame_files[i], term_size))
  /\ UNCHANGED << pc, sysVars >>
  /\ UNCHANGED << decoder_status, frame_files, ascii_frames >>
  /\ UNCHANGED << termVars, loopVars, keyVars, runVars >>

\* list(executor.map(...)) returns once every future has its result
Collect ==
  /\ pc = "collect"
  /\ \A i \in 1..Len(futures) : futures[i] = "done"
  /\ pc' = "shutdown"
  /\ UNCHANGED sysVars
  /\ UNCHANGED << convVars, termVars, loopVars, keyVars, runVars >>

\* Shutdown that does not wait for the running tasks: shutdown(wait=False)
ShutdownNoWait ==
  /\ pc = "shutdown"
  /\ pc' = IF exc = "KeyboardInterrupt" THEN "handler" ELSE "filter"
  /\ UNCHANGED sysVars
  /\ UNCHANGED << convVars, termVars, loopVars, keyVars, runVars >>

\* leaving the with block: executor.shutdown(wait=True)
Shutdown ==
  /\ pc = "shutdown"
  /\ \A i \in 1..Len(futures) : futures[i] \in { "done", "cancelled" }
  /\ pc' = IF exc = "KeyboardInterrupt" THEN "handler" ELSE "filter"
  /\ UNCHANGED sysVars
  /\ UNCHANGED << convVars, termVars, loopVars, keyVars, runVars >>

\* self.ascii_frames = [f for f in results if f]; return bool(self.ascii_frames)
Filter ==
  /\ pc = "filter"
  /\ ascii_frames' = FilterFrames(results)
  /\ results' = << >>
  /\ pc' = IF ascii_frames' # << >> THEN "play_check" ELSE "exit1"
  /\ UNCHANGED << sysVars, decoder_status, frame_files, futures >>
  /\ UNCHANGED << termVars, loopVars, keyVars, runVars >>

\* if not player.convert_video(): exit(1)
Exit1 ==
  /\ pc = "exit1"
  /\ exc' = "SystemExit"
  /\ pc' = "cleanup"
  /\ UNCHANGED << sysVars, exit_status, reported, cleanups >>
  /\ UNCHANGED << convVars, termVars, loopVars, keyVars >>

(* ---------------------------------------------------------------------- *)
(* Playback phase: HDAsciiPlayer.play                                      *)
(* ---------------------------------------------------------------------- *)
\* if not self.ascii_frames: return
PlayCheck ==
  /\ pc = "play_check"
  /\ pc' = IF ascii_frames = << >> THEN "cleanup" ELSE "initscr"
  /\ UNCHANGED sysVars
  /\ UNCHANGED << convVars, termVars, loopVars, keyVars, runVars >>

\* stdscr = curses.initscr()
InitScr ==
  /\ pc = "initscr"
  /\ acquired' = TRUE
  /\ last_op' = "initscr"
  /\ pc' = "setup"
  /\ UNCHANGED << sysVars, endwins, drawn, status_row >>
  /\ UNCHANGED << convVars, loopVars, keyVars, runVars >>

\* curses.curs_set(0); curses.noecho(); stdscr.nodelay(1)
Setup ==
  /\ pc = "setup"
  /\ pc' = "color"
  /\ UNCHANGED sysVars
  /\ UNCHANGED << convVars, termVars, loopVars, keyVars, runVars >>

\* the optional colour support; any failure is ignored
Color ==
  /\ pc = "color"
  /\ pc' = "loop_next"
  /\ UNCHANGED sysVars
  /\ UNCHANGED << convVars, termVars, loopVars, keyVars, runVars >>

\* LoopNext that stops one frame before the end of the sequence
LoopNextShort ==
  /\ pc = "loop_next"
  /\ IF idx < Len(ascii_frames) - 1
       THEN idx' = idx + 1 /\ pc' = "clear" /\ stop' = stop /\ polls' = 0
       ELSE idx' = idx /\ pc' = "endwin" /\ stop' = "exhausted" /\ polls' = polls
  /\ UNCHANGED << sysVars, rendered, sleeps, lines >>
  /\ UNCHANGED << convVars, termVars, keyVars, runVars >>

\* for idx, frame in enumerate(self.ascii_frames)
LoopNext ==
  /\ pc = "loop_next"
  /\ IF idx < Len(ascii_frames)
       THEN idx' = idx + 1 /\ pc' = "clear" /\ stop' = stop /\ polls' = 0
       ELSE idx' = idx /\ pc' = "endwin" /\ stop' = "exhausted" /\ polls' = polls
  /\ UNCHANGED << sysVars, rendered, sleeps, lines >>
  /\ UNCHANGED << convVars, termVars, keyVars, runVars >>

\* stdscr.clear()
Clear ==
  /\ pc = "clear"
  /\ drawn' = << >>
  /\ status_row' = -1
  /\ last_op' = "clear"
  /\ rendered' = Append(rendered, idx)
  /\ sleeps' = 0
  /\ pc' = "splitlines"
  /\ UNCHANGED << sysVars, acquired, endwins, idx, polls, lines, stop >>
  /\ UNCHANGED << convVars, keyVars, runVars >>

\* lines = frame.splitlines()
SplitLines ==
  /\ pc = "splitlines"
  /\ lines' = splitlines(ascii_frames[idx])
  /\ pc' = "addstr"
  /\ UNCHANGED << sysVars, idx, rendered, polls, sleeps, stop >>
  /\ UNCHANGED << convVars, termVars, keyVars, runVars >>

\* range(min(len(lines), max_rows-1))
ContentRows == Min(Len(lines), term_size[1] - 1)

\* stdscr.addstr(i, 0, lines[i][:max_cols-1])
DrawnRow(line) == Take(line, term_size[2] - 1)

\* the content rows of the frame are all drawn
AddRows ==
  /\ pc = "addstr"
  /\ drawn' = [i \in 1..ContentRows |-> DrawnRow(lines[i])]
  /\ last_op' = "addstr"
  /\ pc' = "status"
  /\ UNCHANGED << sysVars, acquired, endwins, status_row >>
  /\ UNCHANGED << convVars, loopVars, keyVars, runVars >>

\* AddRowsError without the except clause: the error leaves the frame loop
AddRowsErrorFatal ==
  /\ pc = "addstr"
  /\ \E k \in FailRows(ContentRows) :
        /\ drawn' = [i \in 1..k |-> DrawnRow(lines[i])]
        /\ last_op' = IF k > 0 THEN "addstr" ELSE last_op
  /\ exc' = "curses.error"
  /\ pc' = "endwin"
  /\ UNCHANGED << sysVars, acquired, endwins, status_row >>
  /\ UNCHANGED << exit_status, reported, cleanups >>
  /\ UNCHANGED << convVars, loopVars, keyVars >>

\* addstr raises curses.error at content row k+1: except curses.error: continue
AddRowsError ==
  /\ pc = "addstr"
  /\ \E k \in FailRows(ContentRows) :
        /\ drawn' = [i \in 1..k |-> DrawnRow(lines[i])]
        /\ last_op' = IF k > 0 THEN "addstr" ELSE last_op
  /\ pc' = "loop_next"
  /\ UNCHANGED << sysVars, acquired, endwins, status_row >>
  /\ UNCHANGED << convVars, loopVars, keyVars, runVars >>

\* stdscr.addstr(min(max_rows-1, len(lines)), 0, status[:max_cols-1])
StatusRow == Min(term_size[1] - 1, Len(lines))

AddStatus ==
  /\ pc = "status"
  /\ status_row' = StatusRow
  /\ last_op' = "addstr"
  /\ pc' = "refresh"
  /\ UNCHANGED << sysVars, acquired, endwins, drawn >>
  /\ UNCHANGED << convVars, loopVars, keyVars, runVars >>

\* the status line's addstr raises curses.error: continue
AddStatusError ==
  /\ pc = "status"
  /\ pc' = "loop_next"
  /\ UNCHANGED sysVars
  /\ UNCHANGED << convVars, termVars, loopVars, keyVars, runVars >>

\* stdscr.refresh()
Refresh ==
  /\ pc = "refresh"
  /\ last_op' = "refresh"
  /\ pc' = "getch"
  /\ UNCHANGED << sysVars, acquired, endwins, drawn, status_row >>
  /\ UNCHANGED << convVars, loopVars, keyVars, runVars >>

\* refresh raises curses.error: continue
RefreshError ==
  /\ pc = "refresh"
  /\ pc' = "loop_next"
  /\ UNCHANGED sysVars
  /\ UNCHANGED << convVars, termVars, loopVars, keyVars, runVars >>

\* the frame whose key poll comes next
NextPoll ==
  IF pc \in { "clear", "splitlines", "addstr", "status", "refresh", "getch" }
    THEN idx ELSE idx + 1

\* if stdscr.getch() == ord('q'): break
Getch ==
  /\ pc = "getch"
  /\ polls' = polls + 1
  /\ IF keybuf = << >>
       THEN /\ pc' = "sleep"
            /\ UNCHANGED << keybuf, quit_at, stop >>
       ELSE /\ keybuf' = Tail(keybuf)
            /\ IF Head(keybuf) = "q"
                 THEN pc' = "endwin" /\ stop' = "quit"
                 ELSE pc' = "sleep" /\ stop' = stop
            /\ quit_at' = IF quit_at = 0 /\ keybuf' # << >> /\ Head(keybuf') = "q"
                            THEN idx + 1 ELSE quit_at
  /\ UNCHANGED << sysVars, idx, rendered, sleeps, lines >>
  /\ UNCHANGED << convVars, termVars, runVars >>

\* time.sleep(1/FPS)
Sleep ==
  /\ pc = "sleep"
  /\ sleeps' = sleeps + 1
  /\ pc' = "loop_next"
  /\ UNCHANGED << sysVars, idx, rendered, polls, lines, stop >>
  /\ UNCHANGED << convVars, termVars, keyVars, runVars >>

\* finally: curses.endwin(); it raises curses.error when initscr never returned
Endwin ==
  /\ pc = "endwin"
  /\ IF acquired
       THEN /\ endwins' = endwins + 1
            /\ last_op' = "endwin"
            /\ exc' = exc
            /\ pc' = IF exc = "KeyboardInterrupt" THEN "handler" ELSE "cleanup"
       ELSE /\ exc' = "curses.error"
            /\ pc' = "cleanup"
            /\ UNCHANGED << endwins, last_op >>
  /\ UNCHANGED << sysVars, acquired, drawn, status_row >>
  /\ UNCHANGED << exit_status, reported, cleanups >>
  /\ UNCHANGED << convVars, loopVars, keyVars >>

\* the user types a key while the player owns the terminal
KeyPress(k) ==
  /\ pc \in { "setup", "color" } \cup LoopPcs
  /\ Len(keybuf) < KeyBufCap
  /\ keybuf' = Append(keybuf, k)
  /\ quit_at' = IF quit_at = 0 /\ keybuf = << >> /\ k = "q" THEN NextPoll ELSE quit_at
  /\ UNCHANGED << pc, sysVars >>
  /\ UNCHANGED << convVars, termVars, loopVars, runVars >>

(* ---------------------------------------------------------------------- *)
(* Run level: the try / except KeyboardInterrupt / finally of __main__     *)
(* ---------------------------------------------------------------------- *)
\* except KeyboardInterrupt: print(...)
Handler ==
  /\ pc = "handler"
  /\ reported' = TRUE
  /\ exc' = "none"
  /\ pc' = "cleanup"
  /\ UNCHANGED << sysVars, exit_status, cleanups >>
  /\ UNCHANGED << convVars, termVars, loopVars, keyVars >>

\* finally: player.cleanup(); then the pending exception, if any, ends the run
Cleanup ==
  /\ pc = "cleanup"
  /\ temp_frames' = FALSE
  /\ cleanups' = cleanups + 1
  /\ exit_status' = IF exc = "none" THEN 0 ELSE 1
  /\ pc' = "done"
  /\ UNCHANGED << term_size, video_exists, mapVars, exc, reported >>
  /\ UNCHANGED << convVars, termVars, loopVars, keyVars >>

(* ---------------------------------------------------------------------- *)
(* KeyboardInterrupt raised in the main thread                             *)
(* ---------------------------------------------------------------------- *)
\* inside _get_terminal_size the bare except swallows it: return 24, 80
InterruptSize ==
  /\ pc = "term_size"
  /\ term_size' = << MinRows, MinCols >>
  /\ pc' = "prepare_dirs"
  /\ UNCHANGED << temp_frames, video_exists, mapVars >>
  /\ UNCHANGED << convVars, termVars, loopVars, keyVars, runVars >>

\* in the rest of the constructor no try block is open: the run dies
InterruptConstruct ==
  /\ pc \in { "prepare_dirs", "constructed" }
  /\ exc' = "KeyboardInterrupt"
  /\ exit_status' = 130
  /\ pc' = "done"
  /\ UNCHANGED << sysVars, reported, cleanups >>
  /\ UNCHANGED << convVars, termVars, loopVars, keyVars >>

\* in the try block of __main__, outside the pool and outside play's try
InterruptTry ==
  /\ pc \in { "check_input", "decode", "dispatch", "filter", "play_check" }
  /\ exc' = "KeyboardInterrupt"
  /\ pc' = "handler"
  /\ UNCHANGED << sysVars, exit_status, reported, cleanups >>
  /\ UNCHANGED << convVars, termVars, loopVars, keyVars >>

\* while list(executor.map(...)) waits: the result iterator cancels the queued
\* futures and the with block waits for the running ones
InterruptPool ==
  /\ pc = "collect"
  /\ exc' = "KeyboardInterrupt"
  /\ futures' = [i \in 1..Len(futures) |->
                   IF futures[i] = "pending" THEN "cancelled" ELSE futures[i]]
  /\ pc' = "shutdown"
  /\ UNCHANGED << sysVars, exit_status, reported, cleanups >>
  /\ UNCHANGED << decoder_status, frame_files, results, ascii_frames >>
  /\ UNCHANGED << termVars, loopVars, keyVars >>

\* InterruptPlay without the finally clause of play
InterruptPlayNoFinally ==
  /\ pc \in { "initscr", "setup" } \cup LoopPcs
  /\ exc' = "KeyboardInterrupt"
  /\ stop' = "interrupt"
  /\ pc' = "handler"
  /\ UNCHANGED << sysVars, exit_status, reported, cleanups, idx, rendered, polls, sleeps, lines >>
  /\ UNCHANGED << convVars, termVars, keyVars >>

\* inside the try block of play: the finally clause runs
InterruptPlay ==
  /\ pc \in { "initscr", "setup" } \cup LoopPcs
  /\ exc' = "KeyboardInterrupt"
  /\ stop' = "interrupt"
  /\ pc' = "endwin"
  /\ UNCHANGED << sysVars, exit_status, reported, cleanups, idx, rendered, polls, sleeps, lines >>
  /\ UNCHANGED << convVars, termVars, keyVars >>

\* inside the colour setup the bare except swallows it
InterruptColor ==
  /\ pc = "color"
  /\ pc' = "loop_next"
  /\ UNCHANGED << sysVars >>
  /\ UNCHANGED << convVars, termVars, loopVars, keyVars, runVars >>

(* ---------------------------------------------------------------------- *)
(* Specification                                                           *)
(* ---------------------------------------------------------------------- *)
MainThread ==
  \/ GetTerminalSize \/ PrepareDirs \/ EnterTry
  \/ CheckInput \/ Decode \/ Dispatch \/ Collect \/ Shutdown \/ Filter \/ Exit1
  \/ PlayCheck \/ InitScr \/ Setup \/ Color \/ LoopNext \/ Clear \/ SplitLines
  \/ AddRows \/ AddRowsError \/ AddStatus \/ AddStatusError
  \/ Refresh \/ RefreshError \/ Getch \/ Sleep \/ Endwin
  \/ Handler \/ Cleanup

PoolThreads ==
  \E i \in 1..Len(futures) : WorkerStart(i) \/ WorkerFinish(i)

Environment ==
  \/ \E k \in Keys : KeyPress(k)
  \/ InterruptSize \/ InterruptConstruct \/ InterruptTry
  \/ InterruptPool \/ InterruptPlay \/ InterruptColor

Next == MainThread \/ PoolThreads \/ Environment

Spec == Init /\ [][Next]_vars

\* the interpreter keeps running the main thread and the pool threads
FairSpec == Spec /\ WF_vars(MainThread) /\ WF_vars(PoolThreads)

\* the steps of the main thread from the acquisition of the terminal on
PlayThread ==
  \/ InitScr \/ Setup \/ Color \/ LoopNext \/ Clear \/ SplitLines
  \/ AddRows \/ AddRowsError \/ AddStatus \/ AddStatusError
  \/ Refresh \/ RefreshError \/ Getch \/ Sleep \/ Endwin
  \/ Handler \/ Cleanup

(* ---------------------------------------------------------------------- *)
(* play() on its own: the program at the call player.play(), after a       *)
(* conversion in which every picture was converted                         *)
(* ---------------------------------------------------------------------- *)
PlayInit ==
  /\ pc = "play_check"
  /\ term_size \in { ViewportSize(t[1], t[2]) : t \in Terminals }
  /\ temp_frames = TRUE
  /\ video_exists = TRUE
  /\ decoder_status = 0
  /\ frame_files \in { [i \in 1..n |-> i] : n \in 1..MaxFrames }
  /\ futures = [i \in 1..Len(frame_files) |-> "done"]
  /\ results = << >>
  /\ ascii_frames = [i \in 1..Len(frame_files) |->
                       convert_to_ascii(frame_files[i], term_size)]
  /\ exc = "none"
  /\ exit_status = -1
  /\ reported = FALSE
  /\ cleanups = 0
  /\ acquired = FALSE
  /\ endwins = 0
  /\ last_op = "none"
  /\ idx = 0
  /\ rendered = << >>
  /\ polls = 0
  /\ sleeps = 0
  /\ lines = << >>
  /\ drawn = << >>
  /\ status_row = -1
  /\ keybuf = << >>
  /\ quit_at = 0
  /\ stop = "none"
  /\ lum = << 0, 0 >>
  /\ glyph = << -1, -1 >>

PlayNext ==
  \/ PlayCheck \/ PlayThread
  \/ \E k \in Keys : KeyPress(k)
  \/ InterruptTry \/ InterruptPlay \/ InterruptColor

\* the interpreter keeps running the main thread
PlaySpec == PlayInit /\ [][PlayNext]_vars /\ WF_vars(PlayCheck \/ PlayThread)

(* ---------------------------------------------------------------------- *)
(* The glyph mapping on its own: two luminance samples are mapped          *)
(* ---------------------------------------------------------------------- *)
Luminance == 0..255

MapInit ==
  /\ Fresh
  /\ pc = "map"
  /\ video_exists = FALSE
  /\ lum \in Luminance \X Luminance
  /\ glyph = << -1, -1 >>

\* the index expression of _convert_to_ascii applied to both samples
MapPixels ==
  /\ pc = "map"
  /\ glyph' = << GlyphIndex(lum[1]), GlyphIndex(lum[2]) >>
  /\ pc' = "mapped"
  /\ UNCHANGED << term_size, temp_frames, video_exists, lum >>
  /\ UNCHANGED << convVars, termVars, loopVars, keyVars, runVars >>

MapNext == MapPixels

MapSpec == MapInit /\ [][MapNext]_vars

(* ---------------------------------------------------------------------- *)
(* The glyph mapping on integers outside the range of a grey pixel         *)
(* ---------------------------------------------------------------------- *)
WideLuminance == (0 - 300)..555

WideMapInit ==
  /\ Fresh
  /\ pc = "map"
  /\ video_exists = FALSE
  /\ lum \in WideLuminance \X { 0, 255 }
  /\ glyph = << -1, -1 >>

WideMapSpec == WideMapInit /\ [][MapNext]_vars

(* ---------------------------------------------------------------------- *)
(* Properties                                                              *)
(* ---------------------------------------------------------------------- *)
\* play has returned or has been left by an exception, after initscr
PlayOver == acquired /\ pc \in { "handler", "cleanup", "done" }

\* the successful conversions of the frame files, in the order of the files
InOrderSuccesses ==
  FilterFrames([i \in 1..Len(frame_files) |->
                  convert_to_ascii(frame_files[i], term_size)])

\* C1: when convert_video returns after the pool has run, the frame list is the
\* list of the successful conversions in the order of the input paths, whatever
\* the order in which the workers finished.
C1_OrderPreserved ==
  (pc \in { "play_check", "exit1" } /\ decoder_status = 0)
    => ascii_frames = InOrderSuccesses

\* three inputs, the second failing: the first and the third frame, in order
C1_Witness ==
  /\ pc = "play_check"
  /\ frame_files = << 1, 0, 3 >>
  /\ futures = << "done", "done", "done" >>
  /\ Len(ascii_frames) = 2
  /\ ascii_frames[1] = convert_to_ascii(1, term_size)
  /\ ascii_frames[2] = convert_to_ascii(3, term_size)
  /\ ascii_frames[1] # ascii_frames[2]

\* C2: once play has acquired the terminal, endwin restores it exactly once, not
\* before the frame loop is over, and nothing acts on the terminal after it,
\* whether the loop ended by exhaustion, by the quit key or by a
\* KeyboardInterrupt raised anywhere after the acquisition.
C2_RestoredOnce ==
  /\ endwins <= 1
  /\ (endwins = 1) => (acquired /\ pc \notin LoopPcs /\ last_op = "endwin")
  /\ PlayOver => (endwins = 1 /\ stop \in { "exhausted", "quit", "interrupt" })

\* interrupted in the middle of a frame: content rows drawn, no status line yet
C2_Witness ==
  /\ pc = "done"
  /\ stop = "interrupt"
  /\ drawn # << >>
  /\ status_row = -1
  /\ endwins = 1
  /\ last_op = "endwin"

\* C3: when the quit key is pressed at frame X, exactly min(frameCount, X) frames
\* are rendered when the loop stops, and no frame after X is rendered.
C3_QuitAtFrame ==
  (stop \in { "quit", "exhausted" } /\ quit_at > 0)
    => /\ Len(rendered) = Min(Len(ascii_frames), quit_at)
       /\ \A i \in 1..Len(rendered) : rendered[i] <= quit_at

\* C4: the run never ends without cleanup, and a KeyboardInterrupt raised in any
\* phase is caught and reported.
C4_CleanupOnEveryExit ==
  (pc = "done") => (cleanups >= 1 /\ exc # "KeyboardInterrupt")

\* every frame file fails to convert (0 marks such a file)
AllFail == \A i \in 1..Len(frame_files) : frame_files[i] = 0

\* C5: without a converted frame the terminal is never acquired and no frame is
\* rendered; when every conversion fails (or there is no image) convert_video
\* leaves an empty frame sequence, and the run, unless a KeyboardInterrupt was
\* caught, ends with status 1.
C5_NothingToPlay ==
  /\ (ascii_frames = << >>) =>
        (~acquired /\ rendered = << >> /\ pc \notin LoopPcs /\ pc # "initscr")
  /\ (pc \in { "play_check", "exit1" } /\ decoder_status = 0 /\ AllFail) =>
        (ascii_frames = << >> /\ pc = "exit1")
  /\ (pc = "done" /\ decoder_status = 0 /\ AllFail /\ ~reported) =>
        (exit_status = 1 /\ ~acquired)

\* two images, both failing: the run is over with status 1 and never played
C5_Witness ==
  /\ pc = "done"
  /\ Len(frame_files) = 2
  /\ AllFail
  /\ \A i \in 1..Len(futures) : futures[i] = "done"
  /\ ascii_frames = << >>
  /\ exit_status = 1
  /\ ~acquired

\* some conversion was dispatched or some frame exists
ConversionBegun ==
  \/ pc \in { "collect", "shutdown", "filter" }
  \/ futures # << >>
  \/ results # << >>
  \/ ascii_frames # << >>

\* C6: conversions are dispatched and frames exist only if the video file exists
\* and the decoder exited with 0; the decoder is not invoked for a missing
\* file; with a missing file or a failed decoder the run, unless a
\* KeyboardInterrupt was caught, ends with a non-zero status and no frame.
C6_NoWorkWithoutInput ==
  /\ ConversionBegun => (video_exists /\ decoder_status = 0)
  /\ (~video_exists) => (decoder_status = -1)
  /\ (decoder_status # 0) => (ascii_frames = << >>)
  /\ (pc = "done" /\ ~reported /\ (~video_exists \/ decoder_status = 1)) =>
        (exit_status > 0)

\* the decoder failed: status 1, nothing dispatched
C6_Witness ==
  /\ pc = "done"
  /\ video_exists
  /\ decoder_status = 1
  /\ exit_status = 1
  /\ futures = << >>
  /\ ascii_frames = << >>

\* C7: for luminance values in 0..255 the glyph index is floor(v/255 * (N-1)),
\* lies in 0..N-1, is non-decreasing in v, is 0 at 0 and N-1 at 255.
C7_GlyphIndexRange ==
  (pc = "mapped") =>
     LET N == Len(ENHANCED_ASCII)
     IN  /\ \A k \in 1..2 :
               /\ glyph[k] \in 0..(N - 1)
               /\ glyph[k] * 255 <= lum[k] * (N - 1)
               /\ lum[k] * (N - 1) < (glyph[k] + 1) * 255
               /\ (lum[k] = 0) => (glyph[k] = 0)
               /\ (lum[k] = 255) => (glyph[k] = N - 1)
         /\ (lum[1] <= lum[2]) => (glyph[1] <= glyph[2])

\* the two ends of the range have been mapped
C7_Witness ==
  /\ pc = "mapped"
  /\ lum = << 0, 255 >>
  /\ glyph = << 0, Len(ENHANCED_ASCII) - 1 >>

\* the frame has rows rows of cols characters each
HasGrid(frame, rows, cols) ==
  \A ls \in { splitlines(frame) } :
     /\ Len(ls) = rows
     /\ \A i \in 1..Len(ls) : Len(ls[i]) = cols

\* C8: every frame that _convert_to_ascii produces has floor(0.9 * viewport rows)
\* rows of min(ASCII_WIDTH, viewport columns) characters.
C8_FrameGrid ==
  /\ \A i \in 1..Len(results) :
        (results[i] # None /\ results[i] # NotReady) =>
           HasGrid(results[i], (9 * term_size[1]) \div 10,
                   IF term_size[2] < ASCII_WIDTH THEN term_size[2] ELSE ASCII_WIDTH)
  /\ (pc = "play_check") =>
        \A i \in 1..Len(ascii_frames) :
           HasGrid(ascii_frames[i], (9 * term_size[1]) \div 10,
                   IF term_size[2] < ASCII_WIDTH THEN term_size[2] ELSE ASCII_WIDTH)

\* a viewport wider than ASCII_WIDTH: frames of 25 rows by 100 columns
C8_Witness ==
  /\ pc = "play_check"
  /\ term_size = << 28, 106 >>
  /\ Len(ascii_frames) >= 2
  /\ HasGrid(ascii_frames[1], 25, 100)

\* C9: when the loop is about to move on from a frame iteration, that iteration
\* has polled the key exactly once, also when its render raised curses.error.
C9_PollEveryFrame ==
  (pc = "loop_next" /\ idx >= 1) => (polls = 1)

PlaybackState ==
  CASE pc \in { "initscr", "setup", "color" } -> "Initializing"
    [] pc \in LoopPcs -> "Playing"
    [] pc = "endwin" -> "Stopped"
    [] PlayOver -> "Terminated"
    [] OTHER -> "Idle"

PlaybackChain ==
  { << "Idle", "Initializing" >>, << "Initializing", "Playing" >>,
    << "Playing", "Stopped" >>, << "Stopped", "Terminated" >> }

\* play is over, no quit key ever headed the input and no interruption ended it
C10_Exhausted ==
  (PlayOver /\ quit_at = 0 /\ stop # "interrupt")
    => /\ stop = "exhausted"
       /\ rendered = [i \in 1..Len(ascii_frames) |-> i]
       /\ endwins = 1
       /\ last_op = "endwin"

\* C10: playback goes Initializing -> Playing -> Stopped -> Terminated; with no
\* quit key and no interruption every frame is visited once in increasing
\* order, the loop ends exhausted and the terminal is restored; once the
\* terminal is acquired the run always terminates.
C10_Playback ==
  /\ []C10_Exhausted
  /\ [][(stop' # "interrupt" /\ PlaybackState' # PlaybackState)
          => << PlaybackState, PlaybackState' >> \in PlaybackChain]_vars
  /\ (acquired ~> (pc = "done" /\ endwins = 1))

\* all frames shown, the loop exhausted, the run over
C10_Witness ==
  /\ pc = "done"
  /\ stop = "exhausted"
  /\ quit_at = 0
  /\ Len(ascii_frames) >= 2
  /\ rendered = [i \in 1..Len(ascii_frames) |-> i]
  /\ polls = 1
  /\ endwins = 1

\* the iteration of frame idx ended before its getch: only the clause
\* except curses.error: continue ends an iteration that way
RenderFailed == pc = "loop_next" /\ idx >= 1 /\ polls = 0

\* right after a render error playback is still going on
C11_StillPlaying ==
  RenderFailed
    => /\ stop = "none"
       /\ exc = "none"
       /\ acquired
       /\ endwins = 0
       /\ rendered = [i \in 1..idx |-> i]

\* the frame loop is only ever left by exhaustion, the quit key or an interrupt
C11_StopCauses ==
  (acquired /\ pc \in { "endwin", "handler", "cleanup", "done" })
    => /\ stop \in { "exhausted", "quit", "interrupt" }
       /\ exc # "curses.error"
       /\ (stop = "exhausted") => (rendered = [i \in 1..Len(ascii_frames) |-> i])
       /\ (stop = "quit") => (rendered = [i \in 1..idx |-> i])

\* C11: a curses.error raised while frame i is drawn does not end playback: the
\* loop goes on with frame i + 1, the later frames are visited in order unless
\* the quit key or an interrupt stops the loop, and the terminal is restored.
C11_RenderErrorNotFatal ==
  /\ []C11_StillPlaying
  /\ []C11_StopCauses
  /\ [][(RenderFailed /\ pc' = "clear") => (idx' = idx + 1)]_vars
  /\ (RenderFailed ~> (pc = "done" /\ endwins = 1))

\* the render of frame 1 failed (no delay since its clear) and the loop is at
\* the clear of frame 2
C11_Witness ==
  /\ pc = "clear"
  /\ idx = 2
  /\ sleeps = 0
  /\ rendered = << 1 >>
  /\ stop = "none"
  /\ acquired

\* C12: between the clears of two consecutive frames there is exactly one frame
\* delay; when the poll returns the quit key the loop stops with no delay and
\* no further render.
C12_Cadence ==
  /\ (pc = "clear" /\ idx >= 2) => (sleeps = 1)
  /\ (stop = "quit") => (sleeps = 0 /\ rendered = [i \in 1..idx |-> i])

\* C13: at most viewport rows - 1 rows of content are on the screen, and each
\* is its frame row, in full when it is no wider than the viewport columns and
\* cut to the first viewport-columns characters otherwise.
C13_DrawnRows ==
  acquired =>
    /\ Len(drawn) <= term_size[1] - 1
    /\ \A i \in 1..Len(drawn) :
          drawn[i] = IF Len(lines[i]) <= term_size[2]
                       THEN lines[i]
                       ELSE [c \in 1..term_size[2] |-> lines[i][c]]

\* no task of the pool is queued or running
WorkersQuiet ==
  \A i \in 1..Len(futures) : futures[i] \in { "done", "cancelled" }

\* C14: temp_frames is removed only by the cleanup of the run, and only when
\* every dispatched conversion has finished or was cancelled before it started,
\* also when a KeyboardInterrupt arrived during the conversion.
C14_DeleteAfterWorkers ==
  /\ [][(temp_frames /\ ~temp_frames') => (pc = "cleanup" /\ WorkersQuiet)]_vars
  /\ []((cleanups >= 1) => WorkersQuiet)

\* interrupted while the pool was at work: one conversion had started and
\* finished, the queued ones were cancelled, then the directory was removed
C14_Witness ==
  /\ pc = "done"
  /\ reported
  /\ ~temp_frames
  /\ \E i \in 1..Len(futures) : futures[i] = "done"
  /\ \E i \in 1..Len(futures) : futures[i] = "cancelled"

\* the frame files whose conversion succeeds
Convertible == { i \in 1..Len(frame_files) : frame_files[i] # 0 }

\* C15: a failed conversion gives None for its own path and nothing else: the
\* other paths get their frames, no exception of a worker reaches the batch,
\* and the frame list has one frame per successful conversion, none for a
\* failed one.
C15_FailureIsLocal ==
  /\ \A i \in 1..Len(results) :
        (futures[i] = "done") =>
           IF frame_files[i] = 0
             THEN results[i] = None
             ELSE results[i] # None /\ results[i] # NotReady
  /\ (pc \in { "collect", "shutdown", "filter" })
        => (exc \in { "none", "KeyboardInterrupt" })
  /\ (pc \in { "play_check", "exit1" } /\ decoder_status = 0)
        => /\ Len(ascii_frames) = Cardinality(Convertible)
           /\ \A k \in 1..Len(ascii_frames) : ascii_frames[k] # None

\* three files of which only the second converts: one frame goes to play
C15_Witness ==
  /\ pc = "play_check"
  /\ frame_files = << 0, 2, 0 >>
  /\ \A i \in 1..3 : futures[i] = "done"
  /\ Len(ascii_frames) = 1
  /\ exc = "none"

\* the viewports of the terminals a run may meet, and the fallback
Viewports ==
  { << IF t[2] - 2 > 24 THEN t[2] - 2 ELSE 24,
       IF t[1] - 4 > 80 THEN t[1] - 4 ELSE 80 >> : t \in Terminals }
    \cup { << 24, 80 >> }

\* once the constructor has set it
C16_Floor ==
  (pc # "term_size")
    => /\ term_size \in Viewports
       /\ term_size[1] >= 24
       /\ term_size[2] >= 80

\* C16: the viewport is (max(rows - 2, 24), max(cols - 4, 80)) of the terminal,
\* or 24x80 when the query fails, hence at least 24x80; the constructor sets
\* it once and nothing changes it afterwards.
C16_ViewportFixed ==
  /\ []C16_Floor
  /\ [][(pc # "term_size") => (term_size' = term_size)]_vars

\* a whole run, conversion, playback and cleanup, on the 110x30 terminal
C16_Witness ==
  /\ pc = "done"
  /\ term_size = << 28, 106 >>
  /\ stop = "exhausted"
  /\ endwins = 1
  /\ cleanups = 1

ViewportRows == 24..200

\* C18: the status line is drawn on the row right below the content rows, a
\* row inside the viewport that holds no frame content, and every row of the
\* frame is among the content rows: the limit of viewport rows - 1 cuts none.
C18_StatusRowFree ==
  /\ (status_row # -1)
        => /\ status_row = Len(drawn)
           /\ status_row <= term_size[1] - 1
           /\ Len(drawn) = Len(lines)
  /\ (acquired /\ pc \in { "addstr", "status", "refresh", "getch", "sleep" })
        => /\ Len(lines) = (9 * term_size[1]) \div 10
           /\ Len(lines) <= term_size[1] - 1
  /\ (acquired /\ pc \in { "status", "refresh", "getch", "sleep" })
        => (Len(drawn) = Len(lines))
  /\ \A r \in ViewportRows : GridHeight(<< r, MinCols >>) <= r - 1

\* on the 24x80 viewport: 21 content rows on rows 0..20, the status on row 21
C18_Witness ==
  /\ pc = "refresh"
  /\ term_size = << 24, 80 >>
  /\ Len(lines) = 21
  /\ Len(drawn) = 21
  /\ status_row = 21

\* C19: the glyph ramp has 32 characters, no two of them equal, so that the
\* mapping has 32 levels: the brightest sample is mapped to level 31.
C19_ThirtyTwoLevels ==
  (pc = "mapped")
    => /\ Len(ENHANCED_ASCII) = 32
       /\ \A i, j \in 1..Len(ENHANCED_ASCII) :
             (i # j) => (ENHANCED_ASCII[i] # ENHANCED_ASCII[j])
       /\ \A k \in 1..2 : (lum[k] = 255) => (glyph[k] = 31)

====
